---- MODULE Spec2Model ----
(***************************************************************************)
(* CollabConnect (src/script.js): the whiteboard of the conferencing demo. *)
(*                                                                         *)
(* The state is the whiteboard part of the CollabConnect object, the 2D    *)
(* context of the canvas (its current path and stroke style), the pixels   *)
(* of the canvas, and the events handed to socket.emit.  Every action is   *)
(* one DOM event listener of setupEventListeners/setupWhiteboardEvents,    *)
(* run to completion (the page is single threaded; socket.emit calls       *)
(* handleSocketMessage synchronously).                                     *)
(*                                                                         *)
(* The canvas is modelled at the level of stroked line segments: a         *)
(* segment joins two consecutive points of the current path and is         *)
(* painted with the compositing mode, stroke colour and line width the     *)
(* context has when stroke() runs.  `board` is the set of segments painted *)
(* since the last clearRect.                                               *)
(*                                                                         *)
(* The session part (joinMeeting, the demo timers, chat, files, endCall)   *)
(* is explored by SessionSpec, the whiteboard listeners by Spec; endCall   *)
(* belongs to both.  The whiteboard listeners change no session state and  *)
(* the session handlers other than endCall change no whiteboard state.     *)
(***************************************************************************)
EXTENDS Integers, Sequences, FiniteSets, TLC

\* ------------------------------------------------------------------ bounds
\* The pointer is at one of the positions 0 .. MaxPos of the canvas diagonal.
MaxPos == 1
\* A run dispatches at most MaxSteps DOM events.
MaxSteps == 5

\* ------------------------------------------------------- the environment
\* canvas.getBoundingClientRect(): where the canvas sits in the viewport.
Rect == [left |-> 1, top |-> 1]

\* The mouse events the canvas can receive: e.clientX, e.clientY.
MouseEvents ==
    { [clientX |-> Rect.left + p, clientY |-> Rect.top + p] : p \in 0 .. MaxPos }

\* The .tool-btn buttons: two tools (dataset.tool) and the clearBoard button.
Tools == {"pen", "eraser"}
ToolBtns == Tools \cup {"clearBoard"}

\* Values the colour picker and the brush-size slider can deliver.  The slider
\* delivers e.target.value, a numeric string; `ctx.lineWidth = v` and `v * 3`
\* both convert it to the number, which is what the model keeps.
Colors == {"#000000", "#ffffff"}
BrushSizes == {3, 5}

\* What the displayName, roomId and chatInput fields can hold when read.
RawNames == {"", "  ", " Ann "}
RawRooms == {"", "ROOM1"}
RawMessages == {"  ", "hi"}

\* String.prototype.trim on the strings above.
Trim(str) ==
    CASE str = "  "    -> ""
      [] str = " Ann " -> "Ann"
      [] OTHER         -> str

\* generateRoomId(): a random upper-case id.
GeneratedRoomIds == {"K3J9X0QZA"}

\* simulateParticipants: index.toString() and name of the demo users.
DemoUsers == <<"Alice Johnson", "Bob Smith", "Carol Williams">>
DemoIds == <<"0", "1", "2">>

\* simulateChatResponse: the index of the canned response in `responses`.
Responses == 1 .. 6

\* handleFileUpload: the 10MB limit, and the sizes of the files offered.
MaxFileSize == 10485760
FileSizes == {2048, MaxFileSize + 1}

\* null, for the fields the constructor sets to null.
Null == "<null>"

\* ------------------------------------------------------------ the state
VARIABLES
    isDrawing,          \* this.isDrawing
    currentTool,        \* this.currentTool
    currentColor,       \* this.currentColor
    currentBrushSize,   \* this.currentBrushSize
    ctx,                \* this.ctx: current path and stroke style
    board,              \* the canvas bitmap: segments painted since the last clearRect
    log,                \* the events passed to socket.emit, in order (console.log of emit)
    lastOp,             \* the DOM event (or callback) whose listener ran last
    steps,              \* how many DOM events and callbacks have been dispatched
    displayName,        \* this.displayName
    roomId,             \* this.roomId
    localStream,        \* this.localStream: 0 for null, else the number of the MediaStream
    pendingMedia,       \* joinMeeting calls suspended at `await getUserMedia`
    authModalHidden,    \* #authModal has class hidden
    mainAppHidden,      \* #mainApp has class hidden
    participantsList,   \* the children of #participantsList
    videoGrid,          \* the children of #videoGrid
    chatMessages,       \* the children of #chatMessages
    sharedFiles,        \* this.sharedFiles and the children of #fileList
    peers,              \* this.peers
    timers              \* the setTimeout callbacks not yet run

sessionVars == <<displayName, roomId, localStream, pendingMedia, authModalHidden,
                 mainAppHidden, participantsList, videoGrid, chatMessages,
                 sharedFiles, peers, timers>>

whiteboardVars == <<isDrawing, currentTool, currentColor, currentBrushSize, ctx>>

vars == <<isDrawing, currentTool, currentColor, currentBrushSize, ctx, board, log,
          lastOp, steps, sessionVars>>

\* ---------------------------------------------------------- socket events
\* socket.emit('whiteboard-clear') passes no data.
Undefined == <<>>

ClearEvent == [event |-> "whiteboard-clear", data |-> Undefined]

DrawEvent(x, y) ==
    [event |-> "whiteboard-draw",
     data  |-> [x |-> x, y |-> y, tool |-> currentTool, color |-> currentColor,
                size |-> currentBrushSize, isDrawing |-> TRUE]]

RECURSIVE ClearCount(_)
\* How many whiteboard-clear events a sequence of socket events holds.
ClearCount(s) ==
    IF s = <<>> THEN 0
    ELSE ClearCount(SubSeq(s, 1, Len(s) - 1))
         + (IF s[Len(s)].event = "whiteboard-clear" THEN 1 ELSE 0)

\* handleSocketMessage(event, data): what the handler makes of the canvas.
\* 'whiteboard-draw' is an empty case, 'whiteboard-clear' has no case.
HandleSocketMessage(event, data, b) ==
    CASE event = "whiteboard-draw" -> b
      [] OTHER -> b

\* socket.emit(event, data): logs the event and calls handleSocketMessage.
Emit(ev, b) ==
    /\ log' = Append(log, ev)
    /\ board' = HandleSocketMessage(ev.event, ev.data, b)

\* ----------------------------------------------------------- the canvas
\* A point of the current path.  gen is a history tag: how many clears had
\* happened when the point was recorded.
PathPoint(x, y) == [x |-> x, y |-> y, gen |-> ClearCount(log)]

\* ctx.beginPath(); ctx.moveTo(x, y)
BeginPathMoveTo(c, p) == [c EXCEPT !.path = <<p>>]

\* ctx.lineTo(x, y)
LineTo(c, p) == [c EXCEPT !.path = Append(@, p)]

\* ctx.beginPath()
BeginPath(c) == [c EXCEPT !.path = <<>>]

\* One painted segment.  destination-out removes the pixels under the
\* segment whatever the stroke colour is, so such a segment has no colour.
Segment(from, to, op, strokeStyle, lineWidth) ==
    [from  |-> from, to |-> to, op |-> op,
     color |-> IF op = "destination-out" THEN "none" ELSE strokeStyle,
     width |-> lineWidth]

\* ctx.stroke(): paints every segment of the current path with the style in
\* effect, over what the bitmap b holds.
Stroke(c, b) ==
    b \cup { Segment(c.path[i], c.path[i + 1], c.globalCompositeOperation,
                     c.strokeStyle, c.lineWidth) : i \in 1 .. (Len(c.path) - 1) }

\* ctx.clearRect(0, 0, canvas.width, canvas.height)
ClearRect(b) == {}

\* --------------------------------------------------- CollabConnect methods
\* The constructor's fields; the context is as getContext('2d') returns it
\* (empty path, source-over, black, line width 1).  The page starts with the
\* auth modal shown (showAuthModal) and the main app hidden, its lists empty
\* and the local container alone in the video grid, as endCall restores them.
Init ==
    /\ isDrawing = FALSE
    /\ currentTool = "pen"
    /\ currentColor = "#000000"
    /\ currentBrushSize = 3
    /\ ctx = [path |-> <<>>, globalCompositeOperation |-> "source-over",
              strokeStyle |-> "#000000", lineWidth |-> 1]
    /\ board = {}
    /\ log = <<>>
    /\ lastOp = "DOMContentLoaded"
    /\ steps = 0
    /\ displayName = Null
    /\ roomId = Null
    /\ localStream = 0
    /\ pendingMedia = 0
    /\ authModalHidden = FALSE
    /\ mainAppHidden = TRUE
    /\ participantsList = <<>>
    /\ videoGrid = <<"local">>
    /\ chatMessages = <<>>
    /\ sharedFiles = {}
    /\ peers = {}
    /\ timers = [simulateParticipants |-> 0, participants |-> <<>>, chatResponse |-> 0]

\* startDrawing with the eraser painted as a white pen.
StyleFor_EraserPaintsWhite(c, tool, color, size) ==
    IF tool = "eraser"
    THEN [c EXCEPT !.globalCompositeOperation = "source-over",
                   !.strokeStyle = "#ffffff",
                   !.lineWidth = size * 3]
    ELSE [c EXCEPT !.globalCompositeOperation = "source-over",
                   !.strokeStyle = color,
                   !.lineWidth = size]

\* The style startDrawing gives the context for the selected tool.
StyleFor(c, tool, color, size) ==
    IF tool = "eraser"
    THEN [c EXCEPT !.globalCompositeOperation = "destination-out",
                   !.lineWidth = size * 3]
    ELSE [c EXCEPT !.globalCompositeOperation = "source-over",
                   !.strokeStyle = color,
                   !.lineWidth = size]

StartDrawing(e) ==
    LET x == e.clientX - Rect.left
        y == e.clientY - Rect.top
    IN  /\ isDrawing' = TRUE
        /\ ctx' = StyleFor(BeginPathMoveTo(ctx, PathPoint(x, y)),
                           currentTool, currentColor, currentBrushSize)
        /\ UNCHANGED <<currentTool, currentColor, currentBrushSize, board, log>>

\* draw without the socket.emit call.
Draw_NoEmit(e) ==
    IF ~isDrawing
    THEN UNCHANGED <<isDrawing, currentTool, currentColor, currentBrushSize, ctx, board, log>>
    ELSE LET x == e.clientX - Rect.left
             y == e.clientY - Rect.top
         IN  /\ ctx' = LineTo(ctx, PathPoint(x, y))
             /\ board' = Stroke(ctx', board)
             /\ UNCHANGED <<isDrawing, currentTool, currentColor, currentBrushSize, log>>

Draw(e) ==
    IF ~isDrawing
    THEN UNCHANGED <<isDrawing, currentTool, currentColor, currentBrushSize, ctx, board, log>>
    ELSE LET x == e.clientX - Rect.left
             y == e.clientY - Rect.top
         IN  /\ ctx' = LineTo(ctx, PathPoint(x, y))
             /\ Emit(DrawEvent(x, y), Stroke(ctx', board))
             /\ UNCHANGED <<isDrawing, currentTool, currentColor, currentBrushSize>>

\* stopDrawing without `this.isDrawing = false`.
StopDrawing_KeepsDrawing ==
    IF ~isDrawing
    THEN UNCHANGED <<isDrawing, currentTool, currentColor, currentBrushSize, ctx, board, log>>
    ELSE /\ ctx' = BeginPath(ctx)
         /\ UNCHANGED <<isDrawing, currentTool, currentColor, currentBrushSize, board, log>>

StopDrawing ==
    IF ~isDrawing
    THEN UNCHANGED <<isDrawing, currentTool, currentColor, currentBrushSize, ctx, board, log>>
    ELSE /\ isDrawing' = FALSE
         /\ ctx' = BeginPath(ctx)
         /\ UNCHANGED <<currentTool, currentColor, currentBrushSize, board, log>>

\* clearWhiteboard without the clearRect call.
ClearWhiteboard_NoClearRect ==
    /\ Emit(ClearEvent, board)
    /\ UNCHANGED <<isDrawing, currentTool, currentColor, currentBrushSize, ctx>>

ClearWhiteboard ==
    /\ Emit(ClearEvent, ClearRect(board))
    /\ UNCHANGED <<isDrawing, currentTool, currentColor, currentBrushSize, ctx>>

\* ----------------------------------------------------- the DOM listeners
\* The browser dispatches one more DOM event, of the given type.
Dispatched(type) ==
    /\ steps < MaxSteps
    /\ steps' = steps + 1
    /\ lastOp' = type

\* A listener of the whiteboard ran: the session state is not touched.
WhiteboardEvent(type) ==
    /\ Dispatched(type)
    /\ UNCHANGED sessionVars

MouseDown == \E e \in MouseEvents : StartDrawing(e) /\ WhiteboardEvent("mousedown")
MouseMove == \E e \in MouseEvents : Draw(e) /\ WhiteboardEvent("mousemove")
MouseUp   == StopDrawing /\ WhiteboardEvent("mouseup")
MouseOut  == StopDrawing /\ WhiteboardEvent("mouseout")

\* The touch listeners dispatch a mouse event at e.touches[0] on the canvas.
TouchStart == \E e \in MouseEvents : StartDrawing(e) /\ WhiteboardEvent("touchstart")
TouchMove  == \E e \in MouseEvents : Draw(e) /\ WhiteboardEvent("touchmove")
TouchEnd   == StopDrawing /\ WhiteboardEvent("touchend")

\* No listener is registered for touchcancel: the event changes nothing.
TouchCancel ==
    /\ WhiteboardEvent("touchcancel")
    /\ UNCHANGED <<isDrawing, currentTool, currentColor, currentBrushSize, ctx, board, log>>

\* click on a .tool-btn (e.target is the button)
ToolBtnClick ==
    \E btn \in ToolBtns :
        IF btn = "clearBoard"
        THEN ClearWhiteboard /\ WhiteboardEvent("clearBoard")
        ELSE /\ currentTool' = btn
             /\ WhiteboardEvent("tool")
             /\ UNCHANGED <<isDrawing, currentColor, currentBrushSize, ctx, board, log>>

ColorChange ==
    \E v \in Colors :
        /\ currentColor' = v
        /\ WhiteboardEvent("color")
        /\ UNCHANGED <<isDrawing, currentTool, currentBrushSize, ctx, board, log>>

BrushSizeInput ==
    \E v \in BrushSizes :
        /\ currentBrushSize' = v
        /\ WhiteboardEvent("brush")
        /\ UNCHANGED <<isDrawing, currentTool, currentColor, ctx, board, log>>

\* ------------------------------------------------------------ the session
\* addParticipant(id, name, isLocal): appends an item, whatever the list holds.
AddParticipant(list, id, name) == Append(list, [id |-> id, name |-> name])

\* addRemoteVideo(peerId, displayName): appends a container video-<peerId>.
AddRemoteVideo(grid, peerId) == Append(grid, peerId)

\* addChatMessage(messageData)
AddChatMessage(chat, messageData) == Append(chat, messageData)

\* addFileToList(fileData)
AddFileToList(files, fileData) == files \cup {fileData}

\* handleSocketMessage, case 'chat-message': the echo of an own message has
\* sender = this.displayName and is not added again.
HandleChatMessage(data, chat) ==
    IF data.sender # displayName THEN AddChatMessage(chat, data) ELSE chat

\* handleSocketMessage, case 'file-share'
HandleFileShare(data, files) ==
    IF data.uploader # displayName THEN AddFileToList(files, data) ELSE files

\* joinMeeting that asks for the camera without checking the name.
JoinMeeting_NoNameCheck(nameInput, roomInput) ==
    /\ displayName' = Trim(nameInput)
    /\ \E generated \in GeneratedRoomIds :
          roomId' = IF Trim(roomInput) # "" THEN Trim(roomInput) ELSE generated
    /\ pendingMedia' = pendingMedia + 1
    /\ UNCHANGED <<localStream, authModalHidden, mainAppHidden, participantsList,
                   videoGrid, chatMessages, sharedFiles, peers, timers>>
    /\ UNCHANGED <<whiteboardVars, board, log>>

\* joinMeeting up to `await navigator.mediaDevices.getUserMedia(...)`.
JoinMeeting(nameInput, roomInput) ==
    /\ displayName' = Trim(nameInput)
    /\ \E generated \in GeneratedRoomIds :
          roomId' = IF Trim(roomInput) # "" THEN Trim(roomInput) ELSE generated
    /\ pendingMedia' = IF displayName' = "" THEN pendingMedia ELSE pendingMedia + 1
    /\ UNCHANGED <<localStream, authModalHidden, mainAppHidden, participantsList,
                   videoGrid, chatMessages, sharedFiles, peers, timers>>
    /\ UNCHANGED <<whiteboardVars, board, log>>

\* joinMeeting after getUserMedia resolved: the rest of the try block.  It
\* reads this.roomId and this.displayName as they are now.
JoinMeetingResumed ==
    /\ pendingMedia > 0
    /\ pendingMedia' = pendingMedia - 1
    /\ localStream' = steps + 1
    /\ authModalHidden' = TRUE
    /\ mainAppHidden' = FALSE
    /\ participantsList' = AddParticipant(participantsList, "local", displayName)
    /\ Emit([event |-> "join-room",
             data  |-> [roomId |-> roomId, displayName |-> displayName]], board)
    /\ timers' = [timers EXCEPT !.simulateParticipants = @ + 1]
    /\ UNCHANGED <<displayName, roomId, videoGrid, chatMessages, sharedFiles, peers>>
    /\ UNCHANGED whiteboardVars

\* joinMeeting after getUserMedia rejected: the catch block (a toast).
JoinMeetingFailed ==
    /\ pendingMedia > 0
    /\ pendingMedia' = pendingMedia - 1
    /\ UNCHANGED <<displayName, roomId, localStream, authModalHidden, mainAppHidden,
                   participantsList, videoGrid, chatMessages, sharedFiles, peers, timers>>
    /\ UNCHANGED <<whiteboardVars, board, log>>

\* simulateParticipants: one timer per demo user, due after 0, 1000, 2000 ms.
SimulateParticipants ==
    /\ timers.simulateParticipants > 0
    /\ timers' = [timers EXCEPT !.simulateParticipants = @ - 1,
                                !.participants = Append(@, <<1, 2, 3>>)]
    /\ UNCHANGED <<displayName, roomId, localStream, pendingMedia, authModalHidden,
                   mainAppHidden, participantsList, videoGrid, chatMessages,
                   sharedFiles, peers>>
    /\ UNCHANGED <<whiteboardVars, board, log>>

\* Batch k of the participant timers without its first timer.
WithoutHead(batches, k) ==
    LET rest == Tail(batches[k])
    IN  IF rest = <<>>
        THEN SubSeq(batches, 1, k - 1) \o SubSeq(batches, k + 1, Len(batches))
        ELSE [batches EXCEPT ![k] = rest]

\* The callback simulateParticipants scheduled for demo user i of batch k; the
\* timers of one batch run in the order of their delays.
ParticipantJoins(k) ==
    LET i == Head(timers.participants[k])
    IN  /\ videoGrid' = AddRemoteVideo(videoGrid, DemoIds[i])
        /\ participantsList' = AddParticipant(participantsList, DemoIds[i], DemoUsers[i])
        /\ timers' = [timers EXCEPT !.participants = WithoutHead(@, k)]
        /\ UNCHANGED <<displayName, roomId, localStream, pendingMedia, authModalHidden,
                       mainAppHidden, chatMessages, sharedFiles, peers>>
        /\ UNCHANGED <<whiteboardVars, board, log>>

SendMessage(input) ==
    LET message == Trim(input)
        messageData == [sender |-> displayName, text |-> message, isOwn |-> TRUE]
    IN  IF message = ""
        THEN UNCHANGED <<sessionVars, whiteboardVars, board, log>>
        ELSE /\ chatMessages' = HandleChatMessage(messageData,
                                                  AddChatMessage(chatMessages, messageData))
             /\ Emit([event |-> "chat-message", data |-> messageData], board)
             /\ timers' = [timers EXCEPT !.chatResponse = @ + 1]
             /\ UNCHANGED <<displayName, roomId, localStream, pendingMedia,
                            authModalHidden, mainAppHidden, participantsList, videoGrid,
                            sharedFiles, peers>>
             /\ UNCHANGED whiteboardVars

SimulateChatResponse ==
    /\ timers.chatResponse > 0
    /\ \E n \in 1 .. Len(DemoUsers), r \in Responses :
          chatMessages' = AddChatMessage(chatMessages,
                              [sender |-> DemoUsers[n], text |-> r, isOwn |-> FALSE])
    /\ timers' = [timers EXCEPT !.chatResponse = @ - 1]
    /\ UNCHANGED <<displayName, roomId, localStream, pendingMedia, authModalHidden,
                   mainAppHidden, participantsList, videoGrid, sharedFiles, peers>>
    /\ UNCHANGED <<whiteboardVars, board, log>>

\* handleFileUpload(files) for a list of one file of the given size.
HandleFileUpload(size) ==
    LET fileData == [id |-> steps + 1, size |-> size, uploader |-> displayName]
    IN  IF size > MaxFileSize
        THEN UNCHANGED <<sessionVars, whiteboardVars, board, log>>
        ELSE /\ sharedFiles' = HandleFileShare(fileData, AddFileToList(sharedFiles, fileData))
             /\ Emit([event |-> "file-share", data |-> fileData], board)
             /\ UNCHANGED <<displayName, roomId, localStream, pendingMedia,
                            authModalHidden, mainAppHidden, participantsList, videoGrid,
                            chatMessages, peers, timers>>
             /\ UNCHANGED whiteboardVars

\* endCall: stops the tracks of localStream (the field keeps the stream),
\* closes the peers, shows the auth modal, resets the video grid and clears
\* chat, whiteboard, files and participants.  It cancels no timer and no
\* suspended joinMeeting.
EndCallSession ==
    /\ peers' = {}
    /\ authModalHidden' = FALSE
    /\ mainAppHidden' = TRUE
    /\ videoGrid' = <<"local">>
    /\ chatMessages' = <<>>
    /\ sharedFiles' = {}
    /\ participantsList' = <<>>
    /\ UNCHANGED <<displayName, roomId, localStream, pendingMedia, timers>>

\* click on #endCall
EndCall == ClearWhiteboard /\ EndCallSession /\ Dispatched("endCall")

\* ------------------------------------- the session's listeners and callbacks
\* submit of #authForm, which sits in the auth modal
AuthSubmit ==
    /\ ~authModalHidden
    /\ \E nameInput \in RawNames, roomInput \in RawRooms :
          JoinMeeting(nameInput, roomInput)
    /\ Dispatched("submit")

GetUserMediaResolved == JoinMeetingResumed /\ Dispatched("getUserMediaResolved")

GetUserMediaRejected == JoinMeetingFailed /\ Dispatched("getUserMediaRejected")

SimulateParticipantsTimer == SimulateParticipants /\ Dispatched("simulateParticipants")

ParticipantTimer ==
    /\ \E k \in 1 .. Len(timers.participants) : ParticipantJoins(k)
    /\ Dispatched("participantJoins")

\* click on #sendMessage or Enter in #chatInput, which sit in the main app
SendMessageClick ==
    /\ ~mainAppHidden
    /\ \E input \in RawMessages : SendMessage(input)
    /\ Dispatched("sendMessage")

ChatResponseTimer == SimulateChatResponse /\ Dispatched("simulateChatResponse")

\* change of #fileInput, which sits in the main app
FileInputChange ==
    /\ ~mainAppHidden
    /\ \E size \in FileSizes : HandleFileUpload(size)
    /\ Dispatched("fileInput")

\* click on #endCall, which sits in the main app
EndCallClick == ~mainAppHidden /\ EndCall

SessionNext ==
    \/ AuthSubmit
    \/ GetUserMediaResolved
    \/ GetUserMediaRejected
    \/ SimulateParticipantsTimer
    \/ ParticipantTimer
    \/ SendMessageClick
    \/ ChatResponseTimer
    \/ FileInputChange
    \/ EndCallClick

SessionSpec == Init /\ [][SessionNext]_vars

\* The whiteboard's listeners.  Spec dispatches them, and endCall, whatever the
\* page shows: joining changes no whiteboard state.
Next ==
    \/ MouseDown
    \/ MouseMove
    \/ MouseUp
    \/ MouseOut
    \/ TouchStart
    \/ TouchMove
    \/ TouchEnd
    \/ TouchCancel
    \/ ToolBtnClick
    \/ ColorChange
    \/ BrushSizeInput
    \/ EndCall

Spec == Init /\ [][Next]_vars

\* ------------------------------------------------------------- vocabulary
DownOps == {"mousedown", "touchstart"}
MoveOps == {"mousemove", "touchmove"}
StopOps == {"mouseup", "mouseout", "touchend"}
ClearOps == {"clearBoard", "endCall"}

\* The socket events a step emits.
NewEvents == SubSeq(log', Len(log) + 1, Len(log'))

NewDrawData == { NewEvents[i].data : i \in { j \in 1 .. Len(NewEvents) : NewEvents[j].event = "whiteboard-draw" } }

\* Segment s is the rendering of draw data d: it ends at d's point and has
\* the style startDrawing derives from d's tool, colour and size.
Renders(s, d) ==
    LET st == StyleFor(ctx, d.tool, d.color, d.size)
    IN  /\ s.to.x = d.x
        /\ s.to.y = d.y
        /\ s = Segment(s.from, s.to, st.globalCompositeOperation, d.color, st.lineWidth)

\* Replaying a sequence of socket events from an empty board (spec, DrawingLog
\* and StrokeModel): a clear empties the board, the points of the draw events
\* are consumed pairwise as line segments in the tool, colour and size of the
\* event that carries the segment's end point.
RECURSIVE ReplayState(_)
ReplayState(s) ==
    IF s = <<>>
    THEN [board |-> {}, last |-> <<>>, gen |-> 0]
    ELSE LET r  == ReplayState(SubSeq(s, 1, Len(s) - 1))
             ev == s[Len(s)]
         IN  IF ev.event = "whiteboard-clear"
             THEN [board |-> {}, last |-> r.last, gen |-> r.gen + 1]
             ELSE LET d  == ev.data
                      p  == [x |-> d.x, y |-> d.y, gen |-> r.gen]
                      st == StyleFor(ctx, d.tool, d.color, d.size)
                  IN  [board |-> IF r.last = <<>> THEN r.board
                                 ELSE r.board \cup
                                      { Segment(r.last[1], p, st.globalCompositeOperation,
                                                d.color, st.lineWidth) },
                       last  |-> <<p>>,
                       gen   |-> r.gen]

Replay(s) == ReplayState(s).board

\* ------------------------------------------------------------------ claims

\* C1: a pointer-down (mousedown or touchstart) that arrives while a gesture
\* is Active is ignored: isDrawing, the current path and the stroke style of
\* the context are left as they were.
C1_PointerDownWhileActiveIgnored ==
    [][ (isDrawing /\ lastOp' \in DownOps) => (isDrawing' = isDrawing /\ ctx' = ctx) ]_vars

\* C2: a pointer-up/leave received while Active returns to Idle; while Idle a
\* pointer-move paints nothing and emits nothing and a pointer-up/leave changes
\* nothing; so a step paints or emits a point only while Active, on a
\* pointer-move.
C2_GestureBracketsRendering ==
    [][ /\ (lastOp' \in StopOps => ~isDrawing')
        /\ (~isDrawing /\ lastOp' \in MoveOps
              => board' = board /\ log' = log /\ ctx' = ctx /\ ~isDrawing')
        /\ (~isDrawing /\ lastOp' \in StopOps
              => UNCHANGED <<isDrawing, currentTool, currentColor, currentBrushSize,
                             ctx, board, log>>)
        /\ ((board' \ board # {} \/ NewDrawData # {})
              => isDrawing /\ isDrawing' /\ lastOp' \in MoveOps)
      ]_vars

\* C2 witness: pointer-down, pointer-move, pointer-up: the move painted a
\* segment while Active and the pointer-up returned the controller to Idle.
C2_Witness ==
    /\ lastOp \in StopOps
    /\ steps = 3
    /\ ~isDrawing
    /\ board # {}
    /\ Len(log) = 1

\* C3: a pointer-cancel received while a gesture is Active returns the
\* controller to Idle.
C3_PointerCancelReturnsToIdle ==
    [][ (isDrawing /\ lastOp' = "touchcancel") => ~isDrawing' ]_vars

\* C4: nothing drawn before the most recent clear is rendered again: the
\* board holds no segment whose points were both recorded before that clear.
C4_NothingBeforeClearRendered ==
    \A s \in board : ~(s.from.gen < ClearCount(log) /\ s.to.gen < ClearCount(log))

C6_EventsCarryOrderingKey ==
    \A i \in 1 .. Len(log) : {"logicalClock", "participantId"} \subseteq DOMAIN log[i].data

\* C7: replaying the emitted whiteboard events from the start reproduces the
\* board that live drawing rendered.
C7_ReplayReproducesBoard ==
    Replay(log) = board

C9_ReceivedDrawRendersDelta ==
    [][ \A d \in NewDrawData :
            /\ board \subseteq board'
            /\ \E s \in board' : Renders(s, d)
      ]_vars

\* C10: every whiteboard-draw event of a gesture carries the tool, colour and
\* size the gesture is rendered with (the style startDrawing set), and the
\* same tool, colour and size as the previous event of the gesture.
C10_OneStylePerGesture ==
    [][ \A d \in NewDrawData :
            /\ StyleFor(ctx', d.tool, d.color, d.size) = ctx'
            /\ (Len(ctx.path) >= 2 /\ Len(log) > 0 /\ log[Len(log)].event = "whiteboard-draw")
                  => LET q == log[Len(log)].data
                     IN  d.tool = q.tool /\ d.color = q.color /\ d.size = q.size
      ]_vars

\* C11: a gesture is rendered with destination-out exactly when the tool
\* selected at its pointer-down is the eraser, and a pen gesture of any colour
\* (white included) is rendered source-over in the colour selected at the
\* pointer-down: the pointer-down sets the mode so, no other step changes the
\* mode or the stroke colour, and every segment a step paints has the mode and
\* colour of the context.
C11_EraserIffDestructive ==
    [][ /\ (lastOp' \in DownOps
              => /\ (ctx'.globalCompositeOperation = "destination-out") <=> (currentTool = "eraser")
                 /\ (currentTool # "eraser"
                       => /\ ctx'.globalCompositeOperation = "source-over"
                          /\ ctx'.strokeStyle = currentColor))
        /\ (lastOp' \notin DownOps
              => /\ ctx'.globalCompositeOperation = ctx.globalCompositeOperation
                 /\ ctx'.strokeStyle = ctx.strokeStyle)
        /\ \A s \in board' \ board :
              /\ s.op = ctx.globalCompositeOperation
              /\ s.color = (IF s.op = "destination-out" THEN "none" ELSE ctx.strokeStyle)
      ]_vars

\* C11 witness: a pointer-move has just painted a segment of a gesture begun
\* with the pen in white: the segment is source-over and white, not erased.
C11_Witness ==
    /\ lastOp \in MoveOps
    /\ isDrawing
    /\ ctx.strokeStyle = "#ffffff"
    /\ \E s \in board : s.op = "source-over" /\ s.color = "#ffffff"

\* The ids of a list of participant items.
Ids(list) == [i \in 1 .. Len(list) |-> list[i].id]

\* No element occurs twice in the sequence.
NoDuplicates(seq) == \A i, j \in 1 .. Len(seq) : i # j => seq[i] # seq[j]

\* endCall has run: only endCall emits whiteboard-clear under SessionSpec.
CallEnded == \E i \in 1 .. Len(log) : log[i].event = "whiteboard-clear"

\* C12: after endCall and until the next successful joinMeeting (which shows
\* the main app again), the chat list, the participants list, the shared
\* files and the peers are empty, whatever timers were pending at endCall.
C12_SessionStaysResetAfterEndCall ==
    (CallEnded /\ mainAppHidden)
        => /\ chatMessages = <<>>
           /\ participantsList = <<>>
           /\ sharedFiles = {}
           /\ peers = {}

\* C13: every participant id appears at most once in the participants list
\* and at most once in the video grid.
C13_ParticipantIdsUnique ==
    /\ NoDuplicates(Ids(participantsList))
    /\ NoDuplicates(videoGrid)

\* C14: a joinMeeting that fails (empty name after trimming, or getUserMedia
\* rejected) emits nothing, adds no participant, schedules no timer, leaves
\* the main app and the auth modal as they are (hidden and shown) and leaves
\* localStream unchanged; with an empty name getUserMedia is not requested.
C14_FailedJoinDoesNotJoin ==
    [][ /\ ((lastOp' = "getUserMediaRejected" \/ (lastOp' = "submit" /\ displayName' = ""))
              => /\ log' = log
                 /\ participantsList' = participantsList
                 /\ videoGrid' = videoGrid
                 /\ timers' = timers
                 /\ mainAppHidden' = mainAppHidden
                 /\ authModalHidden' = authModalHidden
                 /\ localStream' = localStream)
        /\ ((lastOp' = "submit" /\ displayName' = "") => pendingMedia' = pendingMedia)
        /\ (lastOp' = "submit" => ~authModalHidden /\ ~authModalHidden')
      ]_vars

\* C14 witness: a join with the name Ann was refused the camera: nothing was
\* emitted, nobody joined, the auth modal is still shown.
C14_Witness ==
    /\ lastOp = "getUserMediaRejected"
    /\ displayName = "Ann"
    /\ pendingMedia = 0
    /\ mainAppHidden
    /\ ~authModalHidden
    /\ localStream = 0
    /\ participantsList = <<>>
    /\ log = <<>>
    /\ timers.simulateParticipants = 0

====
